---- MODULE Spec2Model ----
(***************************************************************************)
(* Model of the notebook 04-Splitter (adjoint optimization of a symmetric  *)
(* broadband splitter): the boundary bitmasks, the filter/projection       *)
(* mapping, the objective callback f and the beta-continuation loop that   *)
(* drives the nlopt solver.                                                *)
(*                                                                         *)
(* Lengths are integers in units of 0.25 um.  Densities are integers in    *)
(* 0..Unit, Unit standing for 1.0.  The design grid is Nx x Ny points      *)
(* (250 x 250 in the notebook, scaled down here); a design vector is a     *)
(* function on 0..n-1, the C-order flattening of the (Nx, Ny) array.       *)
(***************************************************************************)
EXTENDS Integers, Sequences, FiniteSets, TLC

\* ---------------------------------------------------------------- bounds
\* grid points along x and along y (int(design_region_resolution * width))
Nx == 3
Ny == 5
\* number of density steps between 0 and 0.5 (and between 0.5 and 1)
Levels == 12

\* ------------------------------------------------- parameters (cell 3)
\* 0.5 um
waveguide_width == 2
\* 2.5 um
design_region_width == 10
\* 2.5 um
design_region_height == 10
\* 1.0 um
arm_separation == 4

\* ------------------------------------------ optimizer parameters (cell 21)
beta_scale == 2
num_betas == 6
update_factor == 12
\* cur_beta = 4
InitialBeta == 4
\* the steepness of the initial design plot, mapping(rand, eta_i, 128)
PlotBeta == 128

n == Nx * Ny
Cells == 0 .. (n - 1)
Unit == 2 * Levels
\* eta_i = 0.5
eta_i == Levels

Abs(a) == IF a < 0 THEN -a ELSE a
Min(a, b) == IF a < b THEN a ELSE b
Max(a, b) == IF a < b THEN b ELSE a

\* ------------------------------------------------ grid and masks (cell 11)
\* index of grid point (i, j) in a flattened (Nx, Ny) array
Idx(i, j) == i * Ny + j
IOf(c) == c \div Ny
JOf(c) == c % Ny

\* x_g[i] and y_g[j] of np.linspace(-L/2, L/2, N), times 2*(N-1)
X_g(i) == design_region_width * (2 * i - (Nx - 1))
Y_g(j) == design_region_height * (2 * j - (Ny - 1))
\* a length a (in units) on the scale of X_g, of Y_g
XScaled(a) == a * (Nx - 1)
YScaled(a) == a * (Ny - 1)

\* (X_g == -design_region_width / 2) & (np.abs(Y_g) <= waveguide_width / 2)
left_wg_mask(i, j) ==
    /\ X_g(i) = -XScaled(design_region_width)
    /\ Abs(Y_g(j)) <= YScaled(waveguide_width)

top_right_wg_mask(i, j) ==
    /\ X_g(i) = XScaled(design_region_width)
    /\ Abs(Y_g(j) + YScaled(arm_separation)) <= YScaled(waveguide_width)

\* the second arm written with the sign of the first
bottom_right_wg_mask_SameSign(i, j) ==
    /\ X_g(i) = XScaled(design_region_width)
    /\ Abs(Y_g(j) + YScaled(arm_separation)) <= YScaled(waveguide_width)

bottom_right_wg_mask(i, j) ==
    /\ X_g(i) = XScaled(design_region_width)
    /\ Abs(Y_g(j) - YScaled(arm_separation)) <= YScaled(waveguide_width)

Si_mask(i, j) ==
    left_wg_mask(i, j) \/ top_right_wg_mask(i, j) \/ bottom_right_wg_mask(i, j)

border_mask(i, j) ==
    \/ X_g(i) = -XScaled(design_region_width)
    \/ X_g(i) = XScaled(design_region_width)
    \/ Y_g(j) = -YScaled(design_region_height)
    \/ Y_g(j) = YScaled(design_region_height)

\* the cladding mask without the line SiO2_mask[Si_mask] = False
SiO2_mask_NoClear(i, j) == border_mask(i, j)
\* SiO2_mask = border_mask.copy(); SiO2_mask[Si_mask] = False
SiO2_mask(i, j) == border_mask(i, j) /\ ~Si_mask(i, j)

\* mask.flatten() as the set of flat indices where the mask is True
SiCells == {c \in Cells : Si_mask(IOf(c), JOf(c))}
SiO2Cells == {c \in Cells : SiO2_mask(IOf(c), JOf(c))}
BorderCells == {c \in Cells : border_mask(IOf(c), JOf(c))}

\* ------------------------------------------------------ geometry (cell 13)
\* 1.0 um
pml_size == 4
\* 0.5 um
waveguide_length == 2
Sx == 2 * pml_size + 2 * waveguide_length + design_region_width
\* Block size along x: Sx / 2 + 1 (um), doubled
BlockSizeX2 == Sx + 8

\* point (i, j) of the design grid lies in the Block of centre (cx4/4, cy2/2)
\* and size (Sx / 2 + 1, waveguide_width)
InBlock(i, j, cx4, cy2) ==
    /\ Abs(2 * X_g(i) - XScaled(cx4)) <= XScaled(BlockSizeX2)
    /\ Abs(Y_g(j) - YScaled(cy2)) <= YScaled(waveguide_width)

\* center=mp.Vector3(x=-Sx / 4)
LeftWaveguide(i, j) == InBlock(i, j, -Sx, 0)
\* center=mp.Vector3(x=Sx / 4, y=arm_separation / 2)
TopRightWaveguide(i, j) == InBlock(i, j, Sx, arm_separation)
\* center=mp.Vector3(x=Sx / 4, y=-arm_separation / 2)
BottomRightWaveguide(i, j) == InBlock(i, j, Sx, -arm_separation)

\* the Y mirror plane of the simulation (mp.Mirror(direction=mp.Y)) maps
\* grid point (i, j) to (i, Ny - 1 - j)
Mirror(c) == Idx(IOf(c), (Ny - 1) - JOf(c))
Symmetric(field) == \A c \in Cells : field[c] = field[Mirror(c)]

\* ------------------------------------------------------- mapping (cell 9)
\* mpa.conic_filter: convolution of the (Nx, Ny) array with a cone kernel
\* (weight 2 at the centre, 1 at the four nearest points), edges padded with
\* the edge values.  The result is left unnormalised: it is on the scale
\* 0 .. FilterWeight * Unit.
FilterWeight == 6
ClampI(i) == Max(0, Min(Nx - 1, i))
ClampJ(j) == Max(0, Min(Ny - 1, j))
conic_filter(x) ==
    [c \in Cells |->
        LET i == IOf(c)
            j == JOf(c)
        IN  2 * x[c]
            + x[Idx(ClampI(i - 1), j)] + x[Idx(ClampI(i + 1), j)]
            + x[Idx(i, ClampJ(j - 1))] + x[Idx(i, ClampJ(j + 1))]]

\* mpa.tanh_projection(u, beta, eta): a smooth threshold around eta whose
\* slope at eta grows as beta / 2; here the ramp of that slope, saturating
\* at 0 and at 1.
tanh_projection(u, beta, eta) ==
    LET mid == FilterWeight * eta
        top == FilterWeight * Unit
    IN  Max(0, Min(top, mid + (beta \div 2) * (u - mid)))

mapping(x, eta, beta) ==
    LET filtered_field == conic_filter(x)
    IN  [c \in Cells |-> tanh_projection(filtered_field[c], beta, eta)]

\* opt(...): the objective the simulator returns for a design, np.max(np.real(f0));
\* here the number of grid points at full density
Objective(rho) == Cardinality({c \in Cells : rho[c] = FilterWeight * Unit})

\* "media/splitter_{:03d}.png".format(k): the digits the format produces
RECURSIVE Digits(_)
Digits(k) == IF k < 10 THEN <<k>> ELSE Append(Digits(k \div 10), k % 10)
Format03d(k) ==
    LET d == Digits(k)
    IN  IF Len(d) = 1 THEN <<0, 0>> \o d
        ELSE IF Len(d) = 2 THEN <<0>> \o d
        ELSE d

\* ------------------------------------- initial guess and bounds (cell 21)
\* x = 0.5 everywhere, then 1 on Si_mask, then 0 on SiO2_mask
InitialGuess ==
    [c \in Cells |->
        IF c \in SiO2Cells THEN 0 ELSE IF c \in SiCells THEN Unit ELSE Levels]
LowerBounds == [c \in Cells |-> IF c \in SiCells THEN Unit ELSE 0]
UpperBounds == [c \in Cells |-> IF c \in SiO2Cells THEN 0 ELSE Unit]

\* ------------------------------------------------------------------ state
VARIABLES
    pc,                  \* the cell / statement the notebook is at
    sens,                \* sign of the adjoint sensitivity dJ/du at the current beta
    design,              \* the design weights held by opt (update_design)
    map_beta,            \* the beta of the latest call of mapping
    x, lb, ub,           \* design vector and its bounds
    cur_beta, iters,     \* steepness and loop index of the continuation loop
    evaluation_history,  \* list of objective values
    cur_iter,            \* cur_iter[0]
    printed,             \* the number last printed as "Current iteration"
    files,               \* names given to plt.savefig, in order
    solver,              \* the nlopt.opt object of the current round
    result               \* the vector the latest solver.optimize returned

vars == <<pc, sens, design, map_beta, x, lb, ub, cur_beta, iters,
          evaluation_history, cur_iter, printed, files, solver, result>>

\* np.random.rand(Nx * Ny), coarsened: every vector with at most two points
\* at 1 and the others at 0, and the one that is 1 exactly where y < 0
LowerHalf == {c \in Cells : 2 * JOf(c) < Ny - 1}
RandomDesigns ==
    {[c \in Cells |-> IF c \in S THEN Unit ELSE 0] :
        S \in {T \in SUBSET Cells : Cardinality(T) <= 2} \cup {LowerHalf}}

Zeros == [c \in Cells |-> 0]

\* nlopt.opt(algorithm, n) before any setter is called
NewSolver ==
    [lower |-> Zeros, upper |-> Zeros, maxeval |-> 0, numevals |-> 0,
     start |-> Zeros, a |-> Zeros, grad |-> Zeros, best |-> Zeros, bestval |-> -1]

Init ==
    /\ pc = "plot"
    /\ sens = 0
    /\ design = Zeros
    /\ map_beta = 0
    /\ x = InitialGuess
    /\ lb = LowerBounds
    /\ ub = UpperBounds
    /\ cur_beta = InitialBeta
    /\ iters = 0
    /\ evaluation_history = <<>>
    /\ cur_iter = 0
    /\ printed = 0
    /\ files = <<>>
    /\ solver = NewSolver
    /\ result = Zeros

\* ------------------------------------------- initial design plot (cell 17)
\* x0 = mapping(np.random.rand(Nx * Ny), eta_i, 128); opt.update_design([x0])
PlotInitialDesign ==
    /\ pc = "plot"
    /\ \E r \in RandomDesigns : design' = mapping(r, eta_i, PlotBeta)
    /\ map_beta' = PlotBeta
    /\ pc' = "loop"
    /\ UNCHANGED <<sens, x, lb, ub, cur_beta, iters, evaluation_history,
                   cur_iter, printed, files, solver, result>>

\* --------------------------------------------- continuation loop (cell 21)
\* the vector handed to solver.optimize
StartVector_Cold(xx) == InitialGuess
StartVector(xx) == xx

\* loop head, the solver's construction and the entry into solver.optimize(x)
StartRound ==
    /\ pc = "loop"
    /\ iters < num_betas
    /\ solver' = [NewSolver EXCEPT !.lower = lb, !.upper = ub,
                                   !.maxeval = update_factor,
                                   !.start = StartVector(x), !.a = StartVector(x),
                                   !.best = StartVector(x)]
    /\ sens' \in {-1, 0, 1}
    /\ pc' = "optimize"
    /\ UNCHANGED <<design, map_beta, x, lb, ub, cur_beta, iters,
                   evaluation_history, cur_iter, printed, files, result>>

\* the point the solver evaluates next: the start vector first, then a step
\* along the gradient f wrote, kept within the solver's bounds
Trial ==
    IF solver.numevals = 0 THEN solver.start
    ELSE [c \in Cells |->
            Max(solver.lower[c], Min(solver.upper[c], solver.a[c] + solver.grad[c]))]

\* the beta the objective lambda hands to f: the global cur_beta, read when called
LambdaBeta_Captured == InitialBeta
LambdaBeta == cur_beta

\* the index in the image's file name
SaveIndex_Printed(k) == k + 1
SaveIndex(k) == k

\* evaluation_history.append(value)
Record_Reset(h, value) == <<value>>
Record(h, value) == Append(h, value)

\* set_xtol_rel(1e-4): the step to the next point is too small to go on
Converged == solver.numevals >= 1 /\ Trial = solver.a

\* the solver is about to call the objective
Calling ==
    /\ pc = "optimize"
    /\ solver.numevals < solver.maxeval
    /\ ~Converged

\* one call of f(a, g, cur_beta) by the solver that returns normally
Evaluate ==
    /\ Calling
    /\ LET v == Trial
           beta == LambdaBeta
           rho == mapping(v, eta_i, beta)
           f0 == Objective(rho)
       IN  /\ printed' = cur_iter + 1
           /\ design' = rho
           /\ map_beta' = beta
           /\ files' = Append(files, Format03d(SaveIndex(cur_iter)))
           /\ evaluation_history' = Record(evaluation_history, f0)
           /\ cur_iter' = cur_iter + 1
           /\ solver' = [solver EXCEPT
                            !.numevals = @ + 1,
                            !.a = v,
                            !.grad = [c \in Cells |-> sens],
                            !.best = IF f0 > solver.bestval THEN v ELSE @,
                            !.bestval = Max(@, f0)]
    /\ UNCHANGED <<pc, sens, x, lb, ub, cur_beta, iters, result>>

\* f raises inside opt(...): nothing after the print has run
FRaisesInSimulation ==
    /\ Calling
    /\ printed' = cur_iter + 1
    /\ map_beta' = LambdaBeta
    /\ pc' = "failed"
    /\ UNCHANGED <<sens, design, x, lb, ub, cur_beta, iters,
                   evaluation_history, cur_iter, files, solver, result>>

\* f with the append moved above the plot: the raise comes after it
FRaisesInSave_AfterAppend ==
    /\ Calling
    /\ printed' = cur_iter + 1
    /\ design' = mapping(Trial, eta_i, LambdaBeta)
    /\ map_beta' = LambdaBeta
    /\ evaluation_history' =
         Append(evaluation_history, Objective(mapping(Trial, eta_i, LambdaBeta)))
    /\ pc' = "failed"
    /\ UNCHANGED <<sens, x, lb, ub, cur_beta, iters, cur_iter, files, solver, result>>

\* f raises inside plt.savefig: the design is updated, the rest has not run
FRaisesInSave ==
    /\ Calling
    /\ printed' = cur_iter + 1
    /\ design' = mapping(Trial, eta_i, LambdaBeta)
    /\ map_beta' = LambdaBeta
    /\ pc' = "failed"
    /\ UNCHANGED <<sens, x, lb, ub, cur_beta, iters,
                   evaluation_history, cur_iter, files, solver, result>>

\* solver.optimize raises by itself (nlopt.RoundoffLimited and the like)
OptimizeRaises ==
    /\ pc = "optimize"
    /\ pc' = "failed"
    /\ UNCHANGED <<sens, design, map_beta, x, lb, ub, cur_beta, iters,
                   evaluation_history, cur_iter, printed, files, solver, result>>

\* x[:] = r
Assign(xx, r) == r

\* cur_beta = cur_beta * beta_scale
NextBeta_Additive(b) == b + beta_scale
NextBeta(b) == b * beta_scale

\* solver.optimize returns its best point; x[:] = ...; cur_beta *= beta_scale
Return ==
    /\ result' = solver.best
    /\ x' = Assign(x, solver.best)
    /\ cur_beta' = NextBeta(cur_beta)
    /\ iters' = iters + 1
    /\ pc' = "loop"
    /\ UNCHANGED <<sens, design, map_beta, lb, ub, evaluation_history,
                   cur_iter, printed, files, solver>>

\* the solver stops on set_maxeval(update_factor)
MaxEvalReached ==
    /\ pc = "optimize"
    /\ solver.numevals = solver.maxeval
    /\ Return

\* the solver stops earlier, on set_xtol_rel(1e-4)
XtolReached ==
    /\ pc = "optimize"
    /\ solver.numevals < solver.maxeval
    /\ Converged
    /\ Return

\* ------------------------------------ final spectral response (cell 25)
\* opt([mapping(x, eta_i, cur_beta)], need_gradient=False)
FinalBeta_Last == cur_beta \div beta_scale
FinalBeta == cur_beta

FinalResponse ==
    /\ pc = "loop"
    /\ iters = num_betas
    /\ design' = mapping(x, eta_i, FinalBeta)
    /\ map_beta' = FinalBeta
    /\ pc' = "topology"
    /\ UNCHANGED <<sens, x, lb, ub, cur_beta, iters, evaluation_history,
                   cur_iter, printed, files, solver, result>>

\* ------------------------------------------- final topology (cell 28)
\* opt.update_design([mapping(x, eta_i, cur_beta)])
FinalTopology ==
    /\ pc = "topology"
    /\ design' = mapping(x, eta_i, FinalBeta)
    /\ map_beta' = FinalBeta
    /\ pc' = "done"
    /\ UNCHANGED <<sens, x, lb, ub, cur_beta, iters, evaluation_history,
                   cur_iter, printed, files, solver, result>>

Next ==
    \/ PlotInitialDesign
    \/ StartRound
    \/ Evaluate
    \/ FRaisesInSimulation
    \/ FRaisesInSave
    \/ OptimizeRaises
    \/ MaxEvalReached
    \/ XtolReached
    \/ FinalResponse
    \/ FinalTopology

Spec == Init /\ [][Next]_vars

\* ------------------------------------------------------------ properties
\* the steepness of outer round k: 4 * 2^k
Schedule(k) == InitialBeta * beta_scale ^ k

InBounds(v, lo, hi) == \A c \in Cells : lo[c] <= v[c] /\ v[c] <= hi[c]
OnEdge(c) == IOf(c) \in {0, Nx - 1} \/ JOf(c) \in {0, Ny - 1}

\* C1: lb[i] <= ub[i] for every i; x lies within [lb, ub] from the initial
\* guess on, at the start and at the end of every outer round, the solver
\* returning points within the bounds it was given; lb and ub keep the
\* values they were built with.
C1_BoundOrdering ==
    /\ \A c \in Cells : lb[c] <= ub[c]
    /\ InBounds(x, lb, ub)
    /\ pc = "optimize" => InBounds(solver.best, solver.lower, solver.upper)
    /\ lb = LowerBounds
    /\ ub = UpperBounds

\* a round has ended with a design vector that is no longer the initial guess
C1_Witness ==
    /\ pc = "loop"
    /\ iters = num_betas
    /\ x # InitialGuess
    /\ \E c \in Cells : lb[c] < ub[c]

\* C2: outer round k runs with cur_beta = 4 * 2^k, one of 4, 8, ..., 128;
\* cur_beta changes only by the multiplication that ends a round, and never
\* decreases.
C2_BetaSchedule ==
    /\ [](cur_beta = Schedule(iters))
    /\ [](pc = "optimize" =>
            /\ iters \in 0 .. (num_betas - 1)
            /\ cur_beta \in {4, 8, 16, 32, 64, 128})
    /\ [][\/ cur_beta' = cur_beta
          \/ /\ pc = "optimize"
             /\ pc' = "loop"
             /\ iters' = iters + 1
             /\ cur_beta' = 2 * cur_beta
             /\ cur_beta' > cur_beta]_vars

\* the last round is evaluating with beta = 128
C2_Witness ==
    /\ pc = "optimize"
    /\ iters = num_betas - 1
    /\ solver.numevals > 0
    /\ cur_beta = 128

IsPrefix(s, t) == Len(s) <= Len(t) /\ SubSeq(t, 1, Len(s)) = s

\* C3: len(evaluation_history) == cur_iter[0] in every state; a call of f that
\* returns appends exactly one value and adds one to cur_iter[0]; no step
\* removes or rewrites an entry, and nothing is reset between rounds.
C3_HistoryAppendOnly ==
    /\ [](Len(evaluation_history) = cur_iter)
    /\ [][IsPrefix(evaluation_history, evaluation_history')]_vars
    /\ [][Evaluate =>
            /\ Len(evaluation_history') = Len(evaluation_history) + 1
            /\ cur_iter' = cur_iter + 1]_vars
    /\ [][cur_iter' # cur_iter \/ evaluation_history' # evaluation_history
            => solver'.numevals = solver.numevals + 1]_vars

\* a later round has appended to what the earlier rounds recorded, and the
\* recorded values are not all the same
C3_Witness ==
    /\ iters >= 2
    /\ pc = "optimize"
    /\ solver.numevals >= 2
    /\ cur_iter > solver.numevals + 2
    /\ \E p, q \in 1 .. Len(evaluation_history) :
          evaluation_history[p] # evaluation_history[q]

\* C4: the j-th call of f (from 0, over all rounds) saves splitter_{j:03d}.png:
\* the names are pairwise distinct with consecutive indices from 0, and the
\* index of the latest image is one less than the number printed.
C4_OneImagePerIteration ==
    /\ Len(files) = cur_iter
    /\ \A j \in 1 .. Len(files) : files[j] = Format03d(j - 1)
    /\ Cardinality({files[j] : j \in 1 .. Len(files)}) = Len(files)
    /\ (pc # "failed" /\ Len(files) > 0) => files[Len(files)] = Format03d(printed - 1)

\* images of two rounds, with one-digit and two-digit indices
C4_Witness ==
    /\ iters >= 1
    /\ Len(files) >= 12
    /\ files[1] = <<0, 0, 0>>
    /\ files[12] = <<0, 1, 1>>
    /\ printed = Len(files)

\* C5: every field mapping returns is symmetric under the reflection across
\* the Y mirror plane, whatever the input vector.
C5_MappingSymmetric == Symmetric(design)

\* C6: every evaluation made in outer round k uses beta = 4 * 2^k, the value
\* cur_beta has during that round.
C6_RoundBeta ==
    (pc = "optimize" /\ solver.numevals > 0) =>
        /\ map_beta = Schedule(iters)
        /\ map_beta = cur_beta

\* an evaluation of the fourth round
C6_Witness ==
    /\ pc = "optimize"
    /\ iters = 3
    /\ solver.numevals = 5
    /\ map_beta = 32

\* C7: a raise ends the run: the step that raises leaves evaluation_history,
\* cur_iter, x, cur_beta and the round unchanged, the failed round k keeps
\* cur_beta = 4 * 2^k and the x it started from, and nothing runs after it.
C7_NoRecovery ==
    /\ [][pc # "failed"]_vars
    /\ [][pc' = "failed" =>
            /\ evaluation_history' = evaluation_history
            /\ cur_iter' = cur_iter
            /\ x' = x
            /\ cur_beta' = cur_beta
            /\ iters' = iters
            /\ solver' = solver]_vars
    /\ [](pc = "failed" =>
            /\ cur_beta = Schedule(iters)
            /\ iters < num_betas
            /\ x = solver.start
            /\ Len(evaluation_history) = cur_iter)

\* a raise in the third round, after evaluations, from a moved design vector
C7_Witness ==
    /\ pc = "failed"
    /\ iters = 2
    /\ solver.numevals >= 1
    /\ x # InitialGuess
    /\ printed = cur_iter + 1

\* C8: Si_mask and SiO2_mask are disjoint and their union is border_mask, the
\* points of the four edges; a border point has lb = ub = x (1 on Si_mask, 0 on
\* SiO2_mask), an interior point has lb = 0, ub = 1 and starts at 0.5; Si_mask
\* is the left edge inside the left waveguide block and the right edge inside
\* one of the two right waveguide blocks.
C8_MasksPartitionBorder ==
    /\ SiCells \cap SiO2Cells = {}
    /\ SiCells \subseteq BorderCells
    /\ SiCells \cup SiO2Cells = BorderCells
    /\ BorderCells = {c \in Cells : OnEdge(c)}
    /\ \A c \in SiCells : lb[c] = Unit /\ ub[c] = Unit /\ x[c] = Unit
    /\ \A c \in SiO2Cells : lb[c] = 0 /\ ub[c] = 0 /\ x[c] = 0
    /\ \A c \in Cells \ BorderCells :
          /\ lb[c] = 0
          /\ ub[c] = Unit
          /\ iters = 0 => 2 * x[c] = Unit
    /\ \A c \in Cells :
          c \in SiCells <=>
            \/ IOf(c) = 0 /\ Abs(Y_g(JOf(c))) <= YScaled(waveguide_width)
            \/ /\ IOf(c) = Nx - 1
               /\ \/ Abs(Y_g(JOf(c)) - YScaled(arm_separation)) <= YScaled(waveguide_width)
                  \/ Abs(Y_g(JOf(c)) + YScaled(arm_separation)) <= YScaled(waveguide_width)
    /\ \A c \in Cells :
          c \in SiCells <=>
            \/ IOf(c) = 0 /\ LeftWaveguide(IOf(c), JOf(c))
            \/ /\ IOf(c) = Nx - 1
               /\ \/ TopRightWaveguide(IOf(c), JOf(c))
                  \/ BottomRightWaveguide(IOf(c), JOf(c))

\* the first round starts on a grid with silicon on the left edge and at two
\* heights of the right edge, cladding elsewhere on the border, and an interior
C8_Witness ==
    /\ pc = "optimize"
    /\ iters = 0
    /\ solver.start = InitialGuess
    /\ \E c \in SiCells : IOf(c) = 0
    /\ \E c, d \in SiCells : IOf(c) = Nx - 1 /\ IOf(d) = Nx - 1 /\ JOf(c) < JOf(d)
    /\ SiO2Cells # {}
    /\ Cells \ BorderCells # {}

\* C9: at most num_betas rounds, each with a fresh solver of at most
\* update_factor evaluations, so at most 72 calls of f; the cells after the
\* loop run only after 6 rounds; round 0 starts from the initial guess and
\* round k+1 from the vector round k returned, which was written into x.
C9_WarmStart ==
    /\ iters <= num_betas
    /\ solver.numevals <= update_factor
    /\ cur_iter <= update_factor * iters + (IF pc \in {"optimize", "failed"} THEN solver.numevals ELSE 0)
    /\ cur_iter <= 72
    /\ pc \in {"optimize", "failed"} =>
          /\ solver.maxeval = update_factor
          /\ iters < num_betas
          /\ iters = 0 => solver.start = InitialGuess
          /\ iters > 0 => solver.start = result
    /\ (pc = "loop" /\ iters > 0) => x = result
    /\ pc \in {"topology", "done"} => iters = num_betas /\ x = result

\* all six rounds have run, each to its twelfth evaluation, from a start
\* vector that moved
C9_Witness ==
    /\ pc = "done"
    /\ iters = num_betas
    /\ cur_iter = num_betas * update_factor
    /\ result # InitialGuess

\* C10: after the loop cur_beta = 256; the final response and the final
\* topology both map x with 256, twice the largest beta (128) of any
\* evaluation by the optimizer; neither appends to evaluation_history nor
\* changes cur_iter.
C10_FinalBeta ==
    /\ [](pc \in {"topology", "done"} =>
            /\ cur_beta = 256
            /\ map_beta = 256
            /\ design = mapping(x, eta_i, 256))
    /\ [](pc = "optimize" /\ solver.numevals > 0 => 2 * map_beta <= 256)
    /\ []((pc = "loop" /\ iters = num_betas) => cur_beta = 256)
    /\ [][pc' \in {"topology", "done"} =>
            /\ evaluation_history' = evaluation_history
            /\ cur_iter' = cur_iter]_vars

\* the final topology has been drawn after a run that evaluated at beta = 128
C10_Witness ==
    /\ pc = "done"
    /\ map_beta = 256
    /\ cur_iter > 0
    /\ Len(evaluation_history) = cur_iter

====
